---------------------------- MODULE Spec2Model ----------------------------
(***************************************************************************)
(* Model of vamp/process.py: the four generator entry points that drive a  *)
(* Vamp plugin over a sequence of audio frames and yield its features.     *)
(*                                                                         *)
(* A session is one call of an entry point.  The caller owns control until *)
(* it pulls (next()); the generator body then runs, one statement group    *)
(* per action, until it yields, returns or raises.  Every call made on the *)
(* plugin, every frame taken from the frame source and every yield is      *)
(* appended to log, so that the order of operations can be stated.         *)
(***************************************************************************)
EXTENDS Integers, Sequences, FiniteSets, TLC

\* ------------------------------------------------------------- bounds
MaxFrames == 2      \* longest frame sequence
MaxStep   == 2      \* the step_size of a session, when it is not 0
MaxFeat   == 3      \* most features the plugin returns in one session
MaxOutputs == 3     \* longest list of requested outputs

\* --------------------------------------------------- the plugin's outputs
\* The identifiers the plugin declares, in declaration order: the output
\* with identifier Declared[i] has output_index i - 1.
Declared == <<"a", "b">>
\* An identifier the plugin does not declare.
Undeclared == "z"
Indices == 0 .. (Len(Declared) - 1)
Identifiers == {Declared[i] : i \in DOMAIN Declared} \cup {Undeclared}

IsDeclared(id) == \E i \in DOMAIN Declared : Declared[i] = id

\* plugin.get_output(id)["output_index"]
OutputIndex(id) == (CHOOSE i \in DOMAIN Declared : Declared[i] = id) - 1

\* Variant: the default output is the last the plugin declares.
LastIdentifier == Declared[Len(Declared)]

\* plugin.get_output(0)["identifier"]
FirstIdentifier == Declared[1]

Entries == {"process", "process_frames",
            "process_multiple_outputs", "process_frames_multiple_outputs"}
FrameSourced == {"process_frames", "process_frames_multiple_outputs"}
BufferSourced == {"process", "process_multiple_outputs"}
SingleOutput == {"process", "process_frames"}
MultiOutput == {"process_multiple_outputs", "process_frames_multiple_outputs"}

\* The sample rates a session is called with.
SampleRates == {3, 4}

Max(S) == CHOOSE x \in S : \A y \in S : y <= x

\* No earlier session: the session is the only one looked at.
NoFirst == <<>>

\* Lists of at most n elements of S.
SeqUpTo(S, n) == UNION {[1 .. k -> S] : k \in 0 .. n}

VARIABLES
    first,        \* the finished session this one is compared with, or NoFirst
    entry,        \* the entry point this session runs
    nFrames,      \* number of frames the frame source ff holds
    sample_rate,  \* sample_rate argument
    step_size,    \* step_size (argument, or as load_and_configure returned it)
    output,       \* single-output entries: the output argument / local
    outputs,      \* the outputs list the routing loops iterate
    ctl,          \* "caller", "gen" (generator body running), "abandoned"
    pc,           \* position of the generator body
    err,          \* "" or the failure that reached the caller
    out_index,    \* process_frames: resolved output index (-1: unset)
    out_indices,  \* dict identifier -> output index
    fi,           \* sample index of the current frame
    taken,        \* number of frames taken from ff so far
    results,      \* the result batch being routed
    oi,           \* routing: position in outputs
    ri,           \* routing: position in results[ix]
    log,          \* every plugin call, frame take and yield, in order
    emitted,      \* the events the caller has received, in order
    returned      \* the features the plugin returned, by call and output index

\* What no statement of a session assigns.
args == <<first, entry, nFrames, sample_rate, step_size>>

vars == <<args, output, outputs, ctl, pc, err, out_index, out_indices, fi,
          taken, results, oi, ri, log, emitted, returned>>

\* ----------------------------------------------------- plugin behaviour
\* A feature is tagged with its origin: the n-th result-returning call,
\* the output index it was returned under, its place in that list.
Feature(n, ix, p) == <<n, ix, p>>

\* The batch of the n-th call holding cnt[ix] features under each ix of
\* DOMAIN cnt: a dict output index -> list of features.
MkBatch(n, cnt) == [ix \in DOMAIN cnt |-> [p \in 1 .. cnt[ix] |-> Feature(n, ix, p)]]

\* Number of features of a batch of cnt[ix] features under each ix.
RECURSIVE Total(_)
Total(cnt) ==
    IF DOMAIN cnt = {} THEN 0
    ELSE LET ix == CHOOSE i \in DOMAIN cnt : TRUE
         IN cnt[ix] + Total([i \in DOMAIN cnt \ {ix} |-> cnt[i]])

\* Every batch the plugin may return from its n-th result-returning call,
\* having room for left more features: any set of output indices present,
\* one or more features under each.  (An index with no feature is left out
\* of the dict; the routing loops treat an empty list the same way, their
\* inner loop running zero times.)
Batches(n, left) ==
    {MkBatch(n, cnt) :
       cnt \in {c \in UNION {[S -> 1 .. left] : S \in SUBSET Indices} :
                  Total(c) <= left}}

\* The features of batch b by output index, none under an index it lacks.
FeaturesOf(b) == [ix \in Indices |-> IF ix \in DOMAIN b THEN b[ix] ELSE <<>>]

\* Number of features in the batches recorded in rs.
RECURSIVE FeaturesIn(_)
FeaturesIn(rs) ==
    IF rs = <<>> THEN 0
    ELSE Total([ix \in Indices |-> Len(Head(rs).features[ix])])
         + FeaturesIn(Tail(rs))

\* ---------------------------------------------------------------- Init
\* A session as an entry point is called with a sample rate among rates,
\* for a frame-sourced one a step_size among steps and for a multi-output
\* one an outputs list of at most longest identifiers: nothing of the
\* generator body has run.  load_and_configure returns a positive step
\* size to the buffer-sourced entry points.
Called(rates, steps, longest) ==
    /\ first = NoFirst
    /\ entry \in Entries
    /\ nFrames \in 0 .. MaxFrames
    /\ sample_rate \in rates
    /\ step_size \in (IF entry \in FrameSourced THEN steps ELSE {MaxStep})
    /\ output \in (IF entry \in SingleOutput THEN Identifiers \cup {""} ELSE {""})
    /\ outputs \in (IF entry \in MultiOutput
                      THEN SeqUpTo(Identifiers, longest) ELSE {<<>>})
    /\ ctl = "caller"
    /\ pc = "start"
    /\ err = ""
    /\ out_index = -1
    /\ out_indices = <<>>
    /\ fi = 0
    /\ taken = 0
    /\ results = <<>>
    /\ oi = 1
    /\ ri = 1
    /\ log = <<>>
    /\ emitted = <<>>
    /\ returned = <<>>

\* The loops test fi against 0 and add step_size to it, so step_size 0 and
\* one positive value are told apart.
Init == Called({Max(SampleRates)}, {0, MaxStep}, MaxOutputs)

\* ------------------------------------------------------------- helpers
Logged(op, a, b) == Append(log, <<op, a, b>>)

Range(s) == {s[i] : i \in DOMAIN s}

\* Places of log holding an operation op.
Ops(op) == {i \in DOMAIN log : log[i][1] = op}
Count(op) == Cardinality(Ops(op))

\* The plugin is deterministic: in a session compared with an earlier one
\* (first) it answers its n-th call as it answered the n-th call of the same
\* kind there, and is free where the earlier session made no such call.
MustReturn == first # NoFirst /\ Len(returned) < Len(first.returned)
MustRaise ==
    /\ first # NoFirst
    /\ Len(returned) = Len(first.returned)
    /\ first.err = "PluginError"

\* The batch recorded as features by output index.
Sparse(fs) == [ix \in {i \in Indices : fs[i] # <<>>} |-> fs[ix]]

\* What plugin.process_block or plugin.get_remaining_features may return
\* now, and whether it may raise instead.
PluginResults ==
    IF MustReturn THEN {Sparse(first.returned[Len(returned) + 1].features)}
    ELSE IF MustRaise THEN {}
    ELSE Batches(Len(returned) + 1, MaxFeat - FeaturesIn(returned))

PluginRaises == ~MustReturn

\* What plugin.initialise may return now.
InitialiseResults ==
    LET k == Count("initialise") + 1
    IN IF first # NoFirst /\ k <= Len(first.initialised)
         THEN {first.initialised[k]}
         ELSE BOOLEAN

\* raise: the failure reaches the caller, the generator is finished.
Raise(kind) ==
    /\ ctl' = "caller"
    /\ pc' = "failed"
    /\ err' = kind

\* The get_output calls the list comprehension over ids makes: one per
\* identifier, in order, up to and including the first that is undeclared.
RECURSIVE Lookups(_)
Lookups(ids) ==
    IF ids = <<>> THEN <<>>
    ELSE IF ~IsDeclared(Head(ids)) THEN <<<<"get_output", Head(ids), 0>>>>
    ELSE <<<<"get_output", Head(ids), 0>>>> \o Lookups(Tail(ids))

AllDeclared(ids) == \A i \in DOMAIN ids : IsDeclared(ids[i])

\* dict([(id, plugin.get_output(id)["output_index"]) for id in ids])
IndexDict(ids) == [id \in {ids[i] : i \in DOMAIN ids} |-> OutputIndex(id)]

\* if fi == 0:  (first-frame test of the frame-sourced loops)
InitDue == fi = 0

\* Variant: the drain test asks for more than one step of samples.
DrainDueAfterTwo == fi > step_size

\* if fi > 0:  (drain test of the frame-sourced entry points)
DrainDue == fi > 0

\* Variant: the sample index counts frames, not samples.
NextFiByOne == fi + 1

\* fi = fi + step_size
NextFi == fi + step_size

RECURSIVE GCD(_, _)
GCD(a, b) == IF b = 0 THEN a ELSE GCD(b, a % b)

\* vampyhost.frame_to_realtime(frame, rate): the real time of sample index
\* frame at rate samples a second, the exact rational frame / rate, held in
\* lowest terms as <<numerator, denominator>>.
FrameToRealtime(frame, rate) ==
    LET g == GCD(frame, rate)
    IN <<frame \div g, rate \div g>>

\* ------------------------------------------------------------ the caller
\* next(): the caller resumes (or starts) the generator.
Pull ==
    /\ ctl = "caller"
    /\ pc \notin {"done", "failed"}
    /\ ctl' = "gen"
    /\ UNCHANGED <<args, output, outputs, pc, err,
                   out_index, out_indices, fi, taken, results, oi, ri, log,
                   emitted, returned>>

\* Variant: dropping the generator runs a cleanup that unloads the plugin.
AbandonWithCleanup ==
    /\ ctl = "caller"
    /\ pc \notin {"done", "failed"}
    /\ ctl' = "abandoned"
    /\ log' = IF pc = "start" THEN log ELSE Logged("unload", 0, 0)
    /\ UNCHANGED <<args, output, outputs, pc, err, out_index, out_indices,
                   fi, taken, results, oi, ri, emitted, returned>>

\* The caller stops iterating and drops the generator: the body has no
\* try/finally, so nothing more of it runs.
Abandon ==
    /\ ctl = "caller"
    /\ pc \notin {"done", "failed"}
    /\ ctl' = "abandoned"
    /\ UNCHANGED <<args, output, outputs, pc, err,
                   out_index, out_indices, fi, taken, results, oi, ri, log,
                   emitted, returned>>

\* ------------------------------------------------------- loading
\* vampyhost.load_plugin(...); fi = 0; channels = 0; block_size = 0
LoadPlugin ==
    /\ ctl = "gen" /\ pc = "start"
    /\ entry \in FrameSourced
    /\ log' = Logged("load_plugin", 0, 0)
    /\ fi' = 0
    /\ pc' = "resolve"
    /\ UNCHANGED <<args, output, outputs, ctl, err,
                   out_index, out_indices, taken, results, oi, ri, emitted,
                   returned>>

\* load.load_and_configure(data, sample_rate, key, parameters): loads the
\* plugin, applies the parameters, returns it with the negotiated step size.
LoadAndConfigure ==
    /\ ctl = "gen" /\ pc = "start"
    /\ entry \in BufferSourced
    /\ log' = log \o <<<<"load_plugin", 0, 0>>, <<"set_parameter_values", 0, 0>>>>
    /\ pc' = IF entry = "process" THEN "default" ELSE "resolve"
    /\ UNCHANGED <<args, output, outputs, ctl, err,
                   out_index, out_indices, fi, taken, results, oi, ri, emitted,
                   returned>>

\* process: if output == "": output = plugin.get_output(0)["identifier"];
\* then the inner generator is created with outputs = [output].
DefaultOutput ==
    /\ ctl = "gen" /\ pc = "default"
    /\ IF output = ""
         THEN /\ log' = Logged("get_output", 0, 0)
              /\ output' = FirstIdentifier
         ELSE UNCHANGED <<log, output>>
    /\ outputs' = <<output'>>
    /\ pc' = "resolve"
    /\ UNCHANGED <<args, ctl, err, out_index,
                   out_indices, fi, taken, results, oi, ri, emitted, returned>>

\* ------------------------------------------------------- output lookup
\* out_indices = dict([(id, plugin.get_output(id)["output_index"]) ...]);
\* in process_with_initialised_plugin followed by plugin.reset(); fi = 0.
ResolveOutputs ==
    /\ ctl = "gen" /\ pc = "resolve"
    /\ entry # "process_frames"
    /\ IF AllDeclared(outputs)
         THEN /\ out_indices' = IndexDict(outputs)
              /\ IF entry \in BufferSourced
                   THEN log' = log \o Lookups(outputs) \o <<<<"reset", 0, 0>>>>
                   ELSE log' = log \o Lookups(outputs)
              /\ fi' = 0
              /\ pc' = "loop"
              /\ UNCHANGED <<ctl, err>>
         ELSE /\ log' = log \o Lookups(outputs)
              /\ Raise("UnknownOutput")
              /\ UNCHANGED <<out_indices, fi>>
    /\ UNCHANGED <<args, output, outputs, out_index,
                   taken, results, oi, ri, emitted, returned>>

\* Variant: the lookup is not made before the loop; an identifier the
\* plugin does not declare leaves out_index unset and the session goes on.
ResolveOutputUnchecked ==
    /\ ctl = "gen" /\ pc = "resolve"
    /\ entry = "process_frames"
    /\ out_index' = IF output = "" THEN 0
                    ELSE IF IsDeclared(output) THEN OutputIndex(output) ELSE -1
    /\ pc' = "loop"
    /\ UNCHANGED <<args, output, outputs, ctl, err,
                   out_indices, fi, taken, results, oi, ri, log, emitted,
                   returned>>

\* process_frames: if output == "": out_index = 0
\*                 else: out_index = plugin.get_output(output)["output_index"]
ResolveOutput ==
    /\ ctl = "gen" /\ pc = "resolve"
    /\ entry = "process_frames"
    /\ IF output = ""
         THEN /\ out_index' = 0
              /\ pc' = "loop"
              /\ UNCHANGED <<log, ctl, err>>
         ELSE /\ log' = Logged("get_output", output, 0)
              /\ IF IsDeclared(output)
                   THEN /\ out_index' = OutputIndex(output)
                        /\ pc' = "loop"
                        /\ UNCHANGED <<ctl, err>>
                   ELSE /\ Raise("UnknownOutput")
                        /\ UNCHANGED out_index
    /\ UNCHANGED <<args, output, outputs, out_indices,
                   fi, taken, results, oi, ri, emitted, returned>>

\* ------------------------------------------------------- the frame loop
\* for f in ff: the next frame is taken from the frame source.
TakeFrame ==
    /\ ctl = "gen" /\ pc = "loop"
    /\ taken < nFrames
    /\ taken' = taken + 1
    /\ log' = Logged("take_frame", taken, 0)
    /\ pc' = IF entry \in FrameSourced THEN "init" ELSE "block"
    /\ UNCHANGED <<args, output, outputs, ctl, err,
                   out_index, out_indices, fi, results, oi, ri, emitted,
                   returned>>

\* for f in ff: the frame source is exhausted, the loop ends.  The
\* frame-sourced entry points drain only if fi > 0.
EndOfFrames ==
    /\ ctl = "gen" /\ pc = "loop"
    /\ taken = nFrames
    /\ pc' = IF entry \in BufferSourced \/ DrainDue THEN "drain" ELSE "unload"
    /\ UNCHANGED <<args, output, outputs, ctl, err,
                   out_index, out_indices, fi, taken, results, oi, ri, log,
                   emitted, returned>>

\* Variant: the value plugin.initialise returns is not looked at.
InitialiseUnchecked ==
    /\ ctl = "gen" /\ pc = "init"
    /\ IF InitDue
         THEN \E ok \in InitialiseResults :
                log' = log \o <<<<"set_parameter_values", 0, 0>>,
                                  <<"initialise", ok, 0>>>>
         ELSE UNCHANGED log
    /\ pc' = "block"
    /\ UNCHANGED <<args, output, outputs, ctl, err, out_index,
                   out_indices, fi, taken, results, oi, ri, emitted, returned>>

\* if fi == 0: plugin.set_parameter_values(parameters)
\*             if not plugin.initialise(...): raise "Failed to initialise plugin"
Initialise ==
    /\ ctl = "gen" /\ pc = "init"
    /\ IF InitDue
         THEN \E ok \in InitialiseResults :
                /\ log' = log \o <<<<"set_parameter_values", 0, 0>>,
                                   <<"initialise", ok, 0>>>>
                /\ IF ok THEN pc' = "block" /\ UNCHANGED <<ctl, err>>
                         ELSE Raise("InitFailed")
         ELSE /\ pc' = "block"
              /\ UNCHANGED <<log, ctl, err>>
    /\ UNCHANGED <<args, output, outputs, out_index,
                   out_indices, fi, taken, results, oi, ri, emitted, returned>>

\* timestamp = vampyhost.frame_to_realtime(fi, sample_rate)
\* results = plugin.process_block(f, timestamp)
ProcessBlock ==
    /\ ctl = "gen" /\ pc = "block"
    /\ log' = Logged("process_block", taken - 1, FrameToRealtime(fi, sample_rate))
    /\ \E b \in PluginResults :
         /\ results' = b
         /\ returned' = Append(returned, [kind |-> "block", features |-> FeaturesOf(b)])
    /\ oi' = 1 /\ ri' = 1
    /\ pc' = "route"
    /\ UNCHANGED <<args, output, outputs, ctl, err,
                   out_index, out_indices, fi, taken, emitted>>

\* Variant: a block the plugin cannot process is skipped and the loop
\* goes on with the next frame.
ProcessBlockFailureSkipped ==
    /\ ctl = "gen" /\ pc = "block"
    /\ PluginRaises
    /\ log' = Logged("process_block", taken - 1, FrameToRealtime(fi, sample_rate))
    /\ fi' = NextFi
    /\ pc' = "loop"
    /\ UNCHANGED <<args, output, outputs, ctl, err, out_index,
                   out_indices, taken, results, oi, ri, emitted, returned>>

\* plugin.process_block raises.
ProcessBlockFails ==
    /\ ctl = "gen" /\ pc = "block"
    /\ PluginRaises
    /\ log' = Logged("process_block", taken - 1, FrameToRealtime(fi, sample_rate))
    /\ Raise("PluginError")
    /\ UNCHANGED <<args, output, outputs, out_index,
                   out_indices, fi, taken, results, oi, ri, emitted, returned>>

\* results = plugin.get_remaining_features()
Drain ==
    /\ ctl = "gen" /\ pc = "drain"
    /\ log' = Logged("get_remaining_features", 0, 0)
    /\ \E b \in PluginResults :
         /\ results' = b
         /\ returned' = Append(returned, [kind |-> "drain", features |-> FeaturesOf(b)])
    /\ oi' = 1 /\ ri' = 1
    /\ pc' = "route_drain"
    /\ UNCHANGED <<args, output, outputs, ctl, err,
                   out_index, out_indices, fi, taken, emitted>>

\* plugin.get_remaining_features raises.
DrainFails ==
    /\ ctl = "gen" /\ pc = "drain"
    /\ PluginRaises
    /\ log' = Logged("get_remaining_features", 0, 0)
    /\ Raise("PluginError")
    /\ UNCHANGED <<args, output, outputs, out_index,
                   out_indices, fi, taken, results, oi, ri, emitted, returned>>

\* ------------------------------------------------------------- routing
\* Variant: the event carries the features as a list.
EventOfList(o, r) == IF entry = "process" THEN r ELSE (o :> <<r>>)

\* The event a routing loop yields for feature r of output o.
\*   multi-output entries:  yield { o: r }
\*   process:               yield r[output], r being the inner { o: r }
Event(o, r) == IF entry = "process" THEN (o :> r)[output] ELSE (o :> r)

\* Variant: the event is handed over without suspending the generator.
YieldAndGoOn(ev) ==
    /\ emitted' = Append(emitted, ev)
    /\ log' = Logged("yield", oi, ri)
    /\ ctl' = ctl

\* yield: the event goes to the caller, which gets control.
Yield(ev) ==
    /\ emitted' = Append(emitted, ev)
    /\ log' = Logged("yield", oi, ri)
    /\ ctl' = "caller"

\* Variant: the inner loop stops one feature short of the list's end.
MoreFeaturesDropLast(ix) == ix \in DOMAIN results /\ ri < Len(results[ix])

\* if ix in results: for r in results[ix]:  -- is there a feature left
\* under index ix, the loop being at place ri of the list?
MoreFeatures(ix) == ix \in DOMAIN results /\ ri <= Len(results[ix])

\* Variant: the inner loop steps over every second feature.
NextRiSkipping == ri + 2

\* for r in results[ix]:  -- the place of the next feature of the list
NextRi == ri + 1

\* Variant: the outer loop walks the outputs list from its end.
CurrentOutputReversed == outputs[Len(outputs) + 1 - oi]

\* for o in outputs:  -- the identifier at the loop's place oi
CurrentOutput == outputs[oi]

\* The routing loops are over: after a block, fi = fi + step_size and the
\* frame loop goes on; after the drain batch, plugin.unload() is next.
EndRouting ==
    /\ IF pc = "route"
         THEN fi' = NextFi /\ pc' = "loop"
         ELSE fi' = fi /\ pc' = "unload"
    /\ UNCHANGED <<log, emitted, ctl, oi, ri>>

\* for o in outputs: ix = out_indices[o]
\*     if ix in results: for r in results[ix]: yield { o: r }
\* One step: yield the next feature, move to the next output, or end.
RouteOutputs ==
    /\ ctl = "gen" /\ pc \in {"route", "route_drain"}
    /\ entry # "process_frames"
    /\ IF oi > Len(outputs)
         THEN EndRouting
         ELSE LET o == CurrentOutput
                  ix == out_indices[o]
              IN IF MoreFeatures(ix)
                   THEN /\ Yield(Event(o, results[ix][ri]))
                        /\ ri' = NextRi
                        /\ UNCHANGED <<oi, fi, pc>>
                   ELSE /\ oi' = oi + 1
                        /\ ri' = 1
                        /\ UNCHANGED <<log, emitted, ctl, fi, pc>>
    /\ UNCHANGED <<args, output, outputs, err, out_index,
                   out_indices, taken, results, returned>>

\* process_frames:
\* if out_index in results: for r in results[out_index]: yield r
RouteOutput ==
    /\ ctl = "gen" /\ pc \in {"route", "route_drain"}
    /\ entry = "process_frames"
    /\ IF MoreFeatures(out_index)
         THEN /\ Yield(results[out_index][ri])
              /\ ri' = NextRi
              /\ UNCHANGED <<oi, fi, pc>>
         ELSE EndRouting
    /\ UNCHANGED <<args, output, outputs, err, out_index,
                   out_indices, taken, results, returned>>

\* Variant: plugin.unload() is called as soon as the frame loop is over,
\* before the drain.
UnloadBeforeDrain ==
    /\ ctl = "gen" /\ pc = "loop"
    /\ taken = nFrames
    /\ Count("unload") = 0
    /\ log' = Logged("unload", 0, 0)
    /\ UNCHANGED <<args, output, outputs, ctl, pc, err, out_index,
                   out_indices, fi, taken, results, oi, ri, emitted, returned>>

\* Variant: the generator returns without calling plugin.unload().
ReturnWithoutUnload ==
    /\ ctl = "gen" /\ pc = "unload"
    /\ pc' = "done"
    /\ ctl' = "caller"
    /\ UNCHANGED <<args, output, outputs, err, out_index,
                   out_indices, fi, taken, results, oi, ri, log, emitted,
                   returned>>

\* plugin.unload(); the generator returns.
Unload ==
    /\ ctl = "gen" /\ pc = "unload"
    /\ log' = Logged("unload", 0, 0)
    /\ pc' = "done"
    /\ ctl' = "caller"
    /\ UNCHANGED <<args, output, outputs, err, out_index,
                   out_indices, fi, taken, results, oi, ri, emitted, returned>>

Next ==
    \/ Pull
    \/ Abandon
    \/ LoadPlugin
    \/ LoadAndConfigure
    \/ DefaultOutput
    \/ ResolveOutputs
    \/ ResolveOutput
    \/ TakeFrame
    \/ EndOfFrames
    \/ Initialise
    \/ ProcessBlock
    \/ ProcessBlockFails
    \/ Drain
    \/ DrainFails
    \/ RouteOutputs
    \/ RouteOutput
    \/ Unload

Spec == Init /\ [][Next]_vars

\* ------------------------------------------------- two sessions compared
IsInitialise(e) == e[1] = "initialise"

\* What plugin.initialise returned, call by call, in the operations l.
InitialiseReturned(l) ==
    LET calls == SelectSeq(l, IsInitialise)
    IN [k \in DOMAIN calls |-> calls[k][2]]

\* The entry point a finished session is compared with: for the default
\* output the same entry point, called with the first identifier; for
\* process_multiple_outputs (the loop of process_with_initialised_plugin)
\* the loop of process_frames_multiple_outputs.
ComparedEntry ==
    IF entry = "process_multiple_outputs"
      THEN "process_frames_multiple_outputs" ELSE entry

\* A session that ran to its end is recorded, and the entry point it is
\* compared with is called over the same frames, sample rate and step
\* size, with the same plugin: a single-output one with the identifier of
\* the plugin's first declared output, a multi-output one with the same
\* outputs list.
Rerun ==
    /\ first = NoFirst
    /\ ctl = "caller"
    /\ pc \in {"done", "failed"}
    /\ first' = [entry |-> entry, pc |-> pc, err |-> err, log |-> log,
                 emitted |-> emitted, returned |-> returned,
                 initialised |-> InitialiseReturned(log)]
    /\ entry' = ComparedEntry
    /\ output' = IF entry \in SingleOutput THEN Declared[1] ELSE ""
    /\ outputs' = IF entry \in MultiOutput THEN outputs ELSE <<>>
    /\ ctl' = "caller"
    /\ pc' = "start"
    /\ err' = ""
    /\ out_index' = -1
    /\ out_indices' = <<>>
    /\ fi' = 0
    /\ taken' = 0
    /\ results' = <<>>
    /\ oi' = 1
    /\ ri' = 1
    /\ log' = <<>>
    /\ emitted' = <<>>
    /\ returned' = <<>>
    /\ UNCHANGED <<nFrames, sample_rate, step_size>>

\* The sessions that are compared: single-output ones called with
\* output = "", and those of process_multiple_outputs.
InitTwice ==
    /\ Called({Max(SampleRates)}, {0, MaxStep}, MaxOutputs - 1)
    /\ entry # "process_frames_multiple_outputs"
    /\ entry \in SingleOutput => output = ""

NextTwice == Next \/ Rerun

SpecTwice == InitTwice /\ [][NextTwice]_vars

\* ------------------------------------------- the numeric arguments at large
\* Sessions called with each of the sample rates and with a negative, a
\* zero and a positive step_size, a multi-output one for one output at most.
InitArguments == Called(SampleRates, {-MaxStep, 0, MaxStep}, 1)

SpecArguments == InitArguments /\ [][Next]_vars

\* Types of the control variables.
TypeOK ==
    /\ entry \in Entries
    /\ ctl \in {"caller", "gen", "abandoned"}
    /\ pc \in {"start", "default", "resolve", "loop", "init", "block", "route",
               "drain", "route_drain", "unload", "done", "failed"}
    /\ err \in {"", "UnknownOutput", "InitFailed", "PluginError"}
    /\ taken \in 0 .. nFrames
    /\ Len(emitted) <= Len(log)

\* ---------------------------------------------------- reading the history
Terminated == pc \in {"done", "failed"}

\* The output identifiers the caller asked for.
Requested == IF entry \in MultiOutput THEN Range(outputs) ELSE {output}

\* An identifier the session can resolve: declared, or "" (first output).
Resolvable(o) == o = "" \/ IsDeclared(o)

\* The output index a resolvable identifier stands for.
IndexOf(o) == IF o = "" THEN 0 ELSE OutputIndex(o)

\* How many times the caller listed o.
Occurrences(o) ==
    IF entry \in MultiOutput
      THEN Cardinality({i \in DOMAIN outputs : outputs[i] = o})
      ELSE 1

\* Number of events the caller received for identifier o.  A multi-output
\* event is a one-entry mapping keyed by its identifier; every event of a
\* single-output session belongs to its one output.
EventsFor(o) ==
    IF entry \in MultiOutput
      THEN Cardinality({i \in DOMAIN emitted : DOMAIN emitted[i] = {o}})
      ELSE Len(emitted)

\* Number of features the plugin returned under index ix in batches bs.
RECURSIVE FeaturesUnder(_, _)
FeaturesUnder(bs, ix) ==
    IF bs = <<>> THEN 0
    ELSE Len(Head(bs).features[ix]) + FeaturesUnder(Tail(bs), ix)

ReturnedFor(ix) == FeaturesUnder(returned, ix)

\* ------------------------------------------------------------------ C1
\* C1 (as claimed): when a session has ended, the number of events emitted
\* for each requested identifier equals the number of features the plugin
\* returned under that identifier's index, over all process_block calls and
\* the get_remaining_features call.
C1_EventCountEqualsReturned ==
    Terminated =>
      \A o \in Requested :
        Resolvable(o) => EventsFor(o) = ReturnedFor(IndexOf(o))

\* C1 (amended): the routing loops run once per place of the outputs list,
\* so an identifier listed k times gets every feature of its index k times:
\* at the end of a session the events for it number k times the features
\* returned under its index, and never more than that before the end.
C1_EventCountPerOccurrence ==
    \A o \in Requested :
      Resolvable(o) =>
        LET events == EventsFor(o)
            due == Occurrences(o) * ReturnedFor(IndexOf(o))
        IN /\ events <= due
           /\ Terminated => events = due

\* A finished multi-output session whose list names an identifier twice,
\* with features under its index from three batches, the last the drain's.
C1_Witness ==
    /\ pc = "done"
    /\ entry \in MultiOutput
    /\ Len(returned) = 3
    /\ returned[3].kind = "drain"
    /\ \E o \in Requested :
         /\ IsDeclared(o)
         /\ Occurrences(o) = 2
         /\ \A k \in 1 .. 3 : Len(returned[k].features[IndexOf(o)]) >= 1
         /\ EventsFor(o) >= 6

\* ------------------------------------------------------------------ C2
IsYield(e) == e[1] = "yield"

\* The yield operations of log, in order: the k-th belongs to emitted[k]
\* and records the place oi of outputs and the place ri of the feature list
\* the routing loops were at.
Yields == SelectSeq(log, IsYield)

\* Of the k-th event of a multi-output session: its identifier, its
\* feature, the result-returning call the feature came from and the kind
\* of that call.
EvId(k) == CHOOSE o \in DOMAIN emitted[k] : TRUE
EvFeature(k) == emitted[k][EvId(k)]
EvCall(k) == EvFeature(k)[1]
EvKind(k) == returned[EvCall(k)].kind

\* The first place of the outputs list that names o.
FirstPlace(o) == CHOOSE i \in DOMAIN outputs :
                   outputs[i] = o /\ \A j \in 1 .. (i - 1) : outputs[j] # o

\* C2 (as claimed): in multi-output mode events are ordered by block, drain
\* events come after all block events, and within one block the events of
\* an identifier listed earlier in outputs precede those of an identifier
\* listed later.
C2_IdentifierOrder ==
    entry \in MultiOutput /\ ctl = "caller" =>
      \A i, j \in DOMAIN emitted :
        /\ EvCall(i) < EvCall(j) => i < j
        /\ EvKind(i) = "block" /\ EvKind(j) = "drain" => i < j
        /\ (/\ EvCall(i) = EvCall(j)
            /\ EvKind(i) = "block"
            /\ EvId(i) # EvId(j)
            /\ FirstPlace(EvId(i)) < FirstPlace(EvId(j))) => i < j

\* C2 (amended): in multi-output mode events are ordered by block, drain
\* events come after all block events, and within one block the events are
\* ordered by place in the outputs list: each event carries the identifier
\* at the place it was yielded for, and the events of an earlier place
\* precede those of a later place (so an identifier listed again later has
\* its events repeated after those of the identifiers in between).
\* Stated on consecutive events, from which the order of any two follows:
\* the next event never comes from an earlier call, never from a block
\* after a drain event, and within a call never from an earlier place.
C2_PlaceOrder ==
    entry \in MultiOutput /\ ctl = "caller" =>
      LET ys == Yields
      IN /\ \A k \in DOMAIN emitted : EvId(k) = outputs[ys[k][2]]
         /\ \A k \in 1 .. (Len(emitted) - 1) :
              /\ EvCall(k) <= EvCall(k + 1)
              /\ ~(EvKind(k) = "drain" /\ EvKind(k + 1) = "block")
              /\ EvCall(k) = EvCall(k + 1) => ys[k][2] <= ys[k + 1][2]

\* A finished multi-output session over two blocks whose list names one
\* identifier, another, and the first again; the second block's batch
\* holds a feature of each and the drain batch is not empty.
C2_Witness ==
    /\ pc = "done"
    /\ entry \in MultiOutput
    /\ Len(outputs) = 3
    /\ outputs[1] = outputs[3] /\ outputs[1] # outputs[2]
    /\ Len(returned) = 3
    /\ \A ix \in Indices : Len(returned[2].features[ix]) = 1
    /\ returned[3].kind = "drain"
    /\ \E ix \in Indices : Len(returned[3].features[ix]) = 1
    /\ Len(emitted) >= 4

\* ------------------------------------------------------------------ C3
\* The lists the batches bs hold under index ix, concatenated in order.
RECURSIVE Concatenated(_, _)
Concatenated(bs, ix) ==
    IF bs = <<>> THEN <<>>
    ELSE Head(bs).features[ix] \o Concatenated(Tail(bs), ix)

IsPrefix(s, t) == Len(s) <= Len(t) /\ \A i \in DOMAIN s : s[i] = t[i]

\* C3: in single-output mode the emitted sequence is, when the session has
\* ended, the concatenation in call order of the feature lists returned
\* under the requested output's index (nothing for a batch without that
\* index), the drain batch last; until then it is a prefix of it.
C3_SingleOutputConcatenation ==
    entry \in SingleOutput /\ Resolvable(output) =>
      LET expected == Concatenated(returned, IndexOf(output))
      IN /\ IsPrefix(emitted, expected)
         /\ Terminated => emitted = expected

\* A finished single-output session: the first block's batch lacks the
\* requested index, the second holds two features under it and the drain
\* batch one.
C3_Witness ==
    /\ pc = "done"
    /\ entry \in SingleOutput
    /\ Len(returned) = 3
    /\ returned[1].features[IndexOf(output)] = <<>>
    /\ Len(returned[2].features[IndexOf(output)]) = 2
    /\ Len(returned[3].features[IndexOf(output)]) = 1
    /\ Len(emitted) = 3

\* ------------------------------------------------------------------ C4
\* C4 (as claimed): given zero input frames, no entry point makes an
\* initialise, process_block or get_remaining_features call on the plugin;
\* a session that ran to its end made one lifecycle call, unload.
C4_ZeroFramesOnlyRelease ==
    nFrames = 0 =>
      /\ Count("initialise") = 0
      /\ Count("process_block") = 0
      /\ Count("get_remaining_features") = 0
      /\ pc = "done" => Count("unload") = 1

\* ------------------------------------------------------------------ C5
\* C5 (as claimed): for a frame sequence of at least one frame and any
\* step_size >= 0, a session consumed to its end has called
\* get_remaining_features exactly once, after the last process_block call
\* and before unload.
C5_DrainExactlyOnce ==
    pc = "done" /\ nFrames >= 1 /\ step_size >= 0 =>
      /\ Count("get_remaining_features") = 1
      /\ \A d \in Ops("get_remaining_features") :
           /\ \A b \in Ops("process_block") : b < d
           /\ \A u \in Ops("unload") : d < u

\* ------------------------------------------------------------------ C6
\* C6 (as claimed): in the frame-sourced entry points, for any step_size
\* >= 0, initialise is never called a second time, every process_block call
\* comes after it, and a session consumed to its end over at least one
\* frame has called it exactly once.
C6_InitialiseExactlyOnce ==
    entry \in FrameSourced /\ step_size >= 0 =>
      /\ Count("initialise") <= 1
      /\ \A b \in Ops("process_block") :
           \E i \in Ops("initialise") : i < b
      /\ pc = "done" /\ nFrames >= 1 => Count("initialise") = 1

\* ------------------------------------------------------------------ C7
\* C7: control comes back to the caller from a started session only with
\* an event, with a failure, or at the normal end after plugin.unload();
\* unload is called at most once and nothing is done after it, so a session
\* that ends normally has called unload exactly once, as its last operation.
C7_UnloadOnceAtNormalEnd ==
    LET unloads == Ops("unload")
    IN /\ Cardinality(unloads) <= 1
       /\ \A u \in unloads : u = Len(log)
       /\ (ctl = "caller" /\ log # <<>> /\ err = "" /\ ~IsYield(log[Len(log)]))
            => (pc = "done" /\ log[Len(log)][1] = "unload")
       /\ pc = "done" => unloads = {Len(log)}

\* A frame-sourced session ended normally after two blocks, the drain call
\* and events from each of them.
C7_Witness ==
    /\ pc = "done"
    /\ ctl = "caller"
    /\ entry \in FrameSourced
    /\ Count("process_block") = 2
    /\ Count("get_remaining_features") = 1
    /\ Len(emitted) >= 3
    /\ log[Len(log)][1] = "unload"

\* ------------------------------------------------------------------ C8
\* C8: when a requested identifier is not declared by the plugin, no frame
\* is ever taken from the frame source, process_block is never called and
\* no event is emitted: the session does not get past the lookup, whose
\* failure reaches the caller; and in every session all get_output lookups
\* precede the first frame taken.
C8_UnknownOutputFailsFirst ==
    /\ (\E o \in Requested : ~Resolvable(o)) =>
         /\ Count("take_frame") = 0
         /\ Count("process_block") = 0
         /\ emitted = <<>>
         /\ pc \in {"start", "default", "resolve", "failed"}
         /\ pc = "failed" => err = "UnknownOutput"
    /\ LET taken_at == Ops("take_frame")
       IN \A g \in Ops("get_output") : \A t \in taken_at : g < t
    /\ err = "UnknownOutput" =>
         /\ log[Len(log)][1] = "get_output"
         /\ ~IsDeclared(log[Len(log)][2])

\* The lookup of the second of two requested identifiers failed, with
\* frames waiting in the frame source.
C8_Witness ==
    /\ err = "UnknownOutput"
    /\ pc = "failed"
    /\ nFrames >= 1
    /\ Len(outputs) = 2
    /\ IsDeclared(outputs[1]) /\ ~IsDeclared(outputs[2])
    /\ Count("get_output") = 2

\* ------------------------------------------------------------------ C9
\* Some initialise call of the session returned false.
InitialiseRefused == \E i \in Ops("initialise") : log[i][2] = FALSE

\* C9 (as claimed): in the frame-sourced entry points, when initialise
\* returns false the session fails at the first block: no process_block, no
\* get_remaining_features call is made and no event is yielded.
C9_InitFailureBeforeAnyBlock ==
    entry \in FrameSourced /\ InitialiseRefused =>
      /\ pc = "failed"
      /\ Count("process_block") = 0
      /\ Count("get_remaining_features") = 0
      /\ emitted = <<>>

\* ----------------------------------------------------------------- C10
\* C10 (as claimed): when initialise returns false at the first block,
\* unload is called on the loaded plugin before the failure reaches the
\* caller.
C10_UnloadAfterInitFailure ==
    (entry \in FrameSourced /\ err = "InitFailed" /\ Count("process_block") = 0)
      => Count("unload") = 1

\* ----------------------------------------------------------------- C11
\* C11: a single-output session called with the identifier of the plugin's
\* first declared output, over the same frames and with the same plugin
\* behaviour as a finished session of the same entry point called with
\* output = "", emits the same events in the same order: at every moment a
\* prefix of the earlier session's events, and at its end exactly those
\* events, ending the same way after the same batches.
C11_DefaultOutputEquivalent ==
    first # NoFirst /\ entry \in SingleOutput =>
      /\ IsPrefix(emitted, first.emitted)
      /\ Terminated =>
           /\ emitted = first.emitted
           /\ returned = first.returned
           /\ pc = first.pc
           /\ err = first.err

\* process ran to its end with output = "", looking up output 0, and ran
\* to its end again with the first identifier, over two blocks and a drain
\* batch with events from more than one of them.
C11_Witness ==
    /\ first # NoFirst
    /\ entry = "process"
    /\ \E i \in DOMAIN first.log : first.log[i] = <<"get_output", 0, 0>>
    /\ pc = "done"
    /\ output = Declared[1]
    /\ Len(returned) = 3
    /\ Len(emitted) >= 2
    /\ \E i, j \in DOMAIN emitted : emitted[i][1] # emitted[j][1]

\* ----------------------------------------------------------------- C12
IsProcessBlock(e) == e[1] = "process_block"

\* The process_block calls of log in order, each <<op, frame, timestamp>>.
Blocks == SelectSeq(log, IsProcessBlock)

\* C12: counting frames from 0, the k-th process_block call is given frame
\* k and a timestamp equal, as a rational, to k * step_size / sample_rate;
\* the sample index fi is step_size times the number of frames whose block
\* has been routed, so it starts at 0 and grows by step_size per frame.
C12_TimestampOfBlock ==
    LET bs == Blocks
    IN /\ \A n \in DOMAIN bs :
            LET k == n - 1
                timestamp == bs[n][3]
            IN /\ bs[n][2] = k
               /\ timestamp[2] > 0
               /\ timestamp[1] * sample_rate = k * step_size * timestamp[2]
       /\ fi \in {step_size * taken, step_size * (taken - 1)}
       /\ pc \in {"init", "block", "route"} => fi = step_size * (taken - 1)
       /\ pc \in {"start", "default", "resolve", "loop", "drain",
                  "route_drain", "unload", "done"} => fi = step_size * taken

\* A session that ran to its end over two blocks with a positive step
\* size, the second block's timestamp a fraction that was reduced.
C12_Witness ==
    /\ pc = "done"
    /\ step_size > 0
    /\ Len(Blocks) >= 2
    /\ Blocks[2][3][1] > 0
    /\ Blocks[2][3][2] < sample_rate

\* ----------------------------------------------------------------- C13
\* Feature f is one the plugin returned under output index ix.
ReturnedUnder(f, ix) ==
    \E n \in DOMAIN returned :
      \E p \in DOMAIN returned[n].features[ix] :
        returned[n].features[ix][p] = f

C14_NothingAfterUnload ==
    [][Count("unload") > 0 => (log' = log /\ emitted' = emitted)]_vars

\* A buffer-sourced session in which unload has been called after blocks,
\* the drain call and events.
C14_Witness ==
    /\ Count("unload") = 1
    /\ entry \in BufferSourced
    /\ Count("process_block") >= 1
    /\ Count("get_remaining_features") = 1
    /\ Len(emitted) >= 2
    /\ ctl \in {"caller", "abandoned"}

\* ----------------------------------------------------------------- C15
\* C15: in the frame-sourced entry points, for every step_size, each
\* process_block call comes after an initialise call of the session that
\* returned true, after no initialise call that returned false, and after
\* no unload and no get_remaining_features call.
C15_BlockOnlyAfterInitialise ==
    entry \in FrameSourced =>
      LET inits == Ops("initialise")
      IN \A b \in Ops("process_block") :
           /\ \E i \in inits : i < b /\ log[i][2] = TRUE
           /\ \A i \in inits : i < b => log[i][2] = TRUE
           /\ \A j \in 1 .. (b - 1) :
                log[j][1] \notin {"unload", "get_remaining_features"}

\* A frame-sourced session with step_size = 0 that ran to its end over two
\* blocks, initialise having returned true before each.
C15_Witness ==
    /\ pc = "done"
    /\ entry \in FrameSourced
    /\ step_size = 0
    /\ Count("process_block") = 2
    /\ Count("initialise") = 2
    /\ Len(emitted) >= 1

\* ----------------------------------------------------------------- C16
\* The identifiers the routing loops go through, place by place.
Routed == IF entry = "process_frames" THEN <<output>> ELSE outputs

\* Number of events batch b is due: one per feature under the index of
\* each place of ids.
RECURSIVE DueOf(_, _)
DueOf(b, ids) ==
    IF ids = <<>> THEN 0
    ELSE Len(b.features[IndexOf(Head(ids))]) + DueOf(b, Tail(ids))

\* Number of events the batches bs are due.
RECURSIVE Due(_)
Due(bs) == IF bs = <<>> THEN 0 ELSE DueOf(Head(bs), Routed) + Due(Tail(bs))

\* The generator is between batches: not in the routing loops.
BetweenBatches == pc \in {"loop", "init", "block", "drain", "unload", "done"}

\* A step hands over at most one event: one that yields appends exactly
\* one event, does nothing else and suspends the generator; operations are
\* done only while the generator has control, which it gets back only by
\* the caller's next pull.
OneEventAStep ==
    /\ emitted' # emitted =>
         /\ ctl = "gen" /\ ctl' = "caller"
         /\ \E ev \in {emitted'[Len(emitted')]} : emitted' = Append(emitted, ev)
         /\ \E y \in {log'[Len(log')]} : IsYield(y) /\ log' = Append(log, y)
    /\ log' # log => ctl = "gen"
    /\ (ctl' = "gen" /\ ctl # "gen") =>
         (ctl = "caller" /\ log' = log /\ emitted' = emitted)

\* C16: events are handed over one at a time, the generator suspending
\* after each, so a batch holding N features for the requested outputs
\* makes N yield points; and whenever the driver is outside the routing
\* loops (about to take a frame, initialise, call process_block or
\* get_remaining_features, or unload) the caller has received every event
\* of every batch returned so far.
C16_StreamedOneAtATime ==
    /\ [](BetweenBatches => Len(emitted) = Due(returned))
    /\ [][OneEventAStep]_vars

\* The caller holds the first event of a block whose batch is due more,
\* with a frame still waiting in the frame source.
C16_Witness ==
    /\ ctl = "caller"
    /\ pc = "route"
    /\ taken < nFrames
    /\ Len(returned) = 1
    /\ Due(returned) >= 2
    /\ Len(emitted) = 1

\* ----------------------------------------------------------------- C17
\* Calls that return a batch: process_block and get_remaining_features.
BatchCalls == Ops("process_block") \cup Ops("get_remaining_features")

\* A process_block or get_remaining_features call raised: it is recorded
\* in log and returned no batch.
PluginCallRaised == Cardinality(BatchCalls) > Len(returned)

\* C17: when a process_block or get_remaining_features call raises, the
\* failure reaches the caller at that point and the session is over: the
\* failing call is the last operation of the session (no event is yielded
\* and no process_block or get_remaining_features call is made after it),
\* it is the only call that raised, and the caller has received exactly
\* the events of the batches returned before it.
C17_PluginFailureEndsSequence ==
    PluginCallRaised =>
      /\ pc = "failed"
      /\ err = "PluginError"
      /\ ctl = "caller"
      /\ Len(log) \in BatchCalls
      /\ Cardinality(BatchCalls) = Len(returned) + 1
      /\ Len(emitted) = Due(returned)
      /\ entry \in SingleOutput =>
           emitted = Concatenated(returned, IndexOf(output))

\* process_block raised on the second block, after the caller received
\* two or more events of the first.
C17_Witness ==
    /\ err = "PluginError"
    /\ log[Len(log)][1] = "process_block"
    /\ log[Len(log)][2] = 1
    /\ Len(returned) = 1
    /\ Len(emitted) >= 2

\* ----------------------------------------------------------------- C18
\* The caller holds an event and the generator is suspended at its yield.
HoldsEvent == ctl = "caller" /\ log # <<>> /\ IsYield(log[Len(log)])

\* plugin.initialise was called and returned true.
Initialised == \E i \in Ops("initialise") : log[i][2] = TRUE

\* C18: release is not guaranteed when iteration stops early.  In every
\* entry point the caller may stop after any event it holds; a session
\* abandoned then has its plugin loaded (and, in the frame-sourced entry
\* points, initialised), has never called unload, has not called
\* get_remaining_features if the event was a block's, and nothing more of
\* it ever runs.
C18_EarlyStopLeavesPluginLoaded ==
    /\ [](HoldsEvent => ENABLED Abandon)
    /\ [](ctl = "abandoned" =>
            /\ Count("unload") = 0
            /\ pc # "start" => Count("load_plugin") = 1
            /\ pc = "route" =>
                 /\ Count("get_remaining_features") = 0
                 /\ entry \in FrameSourced => Initialised)
    /\ [][ctl = "abandoned" => UNCHANGED vars]_vars

\* process_frames abandoned by its caller after the first event of a
\* block, with a frame left in the frame source: the plugin is loaded and
\* initialised, neither drained nor unloaded.
C18_Witness ==
    /\ ctl = "abandoned"
    /\ entry = "process_frames"
    /\ pc = "route"
    /\ taken < nFrames
    /\ Len(emitted) = 1
    /\ Count("load_plugin") = 1
    /\ Initialised
    /\ Count("get_remaining_features") = 0
    /\ Count("unload") = 0

\* ----------------------------------------------------------------- C19
\* The calls by which the two loops are allowed to differ.
IsSetup(e) == e[1] \in {"set_parameter_values", "initialise", "reset"}
NotSetup(e) == ~IsSetup(e)
IsTakeFrame(e) == e[1] = "take_frame"
IsLoopCall(e) == e[1] \in {"process_block", "get_remaining_features"}

\* Place of the first frame taken in operations l (0: none was taken).
FirstFrameAt(l) ==
    IF \E i \in DOMAIN l : IsTakeFrame(l[i])
      THEN CHOOSE i \in DOMAIN l :
             IsTakeFrame(l[i]) /\ \A j \in 1 .. (i - 1) : ~IsTakeFrame(l[j])
      ELSE 0

\* C19: process_frames_multiple_outputs, run over one frame or more with a
\* positive step_size and a plugin whose initialise succeeds, after a
\* finished session of process_multiple_outputs (the loop of
\* process_with_initialised_plugin) with the same frames, step size,
\* outputs list and plugin behaviour: it makes the same process_block calls
\* (same frames, same timestamps) followed by the same
\* get_remaining_features call and emits the same events, at every moment
\* a prefix of the earlier session's and at its end all of them.  The
\* sessions differ only in their setup calls: the earlier one calls reset
\* right before the first frame is taken, this one set_parameter_values
\* and initialise right after.
C19_LoopsEquivalent ==
    (/\ first # NoFirst
     /\ entry = "process_frames_multiple_outputs"
     /\ nFrames >= 1 /\ step_size > 0
     /\ ~InitialiseRefused) =>
      LET mine == SelectSeq(log, NotSetup)
          theirs == SelectSeq(first.log, NotSetup)
          at == FirstFrameAt(log)
          theirAt == FirstFrameAt(first.log)
      IN /\ IsPrefix(emitted, first.emitted)
         /\ IsPrefix(mine, theirs)
         /\ \A i \in DOMAIN log :
              IsSetup(log[i]) =>
                \/ i = at + 1 /\ log[i][1] = "set_parameter_values"
                \/ i = at + 2 /\ log[i][1] = "initialise"
         /\ \A i \in DOMAIN first.log :
              first.log[i][1] = "reset" => i = theirAt - 1
         /\ Terminated =>
              /\ emitted = first.emitted
              /\ mine = theirs
              /\ SelectSeq(log, IsLoopCall) = SelectSeq(first.log, IsLoopCall)
              /\ pc = first.pc
              /\ pc = "done" => Count("get_remaining_features") = 1

\* process_frames_multiple_outputs ran to its end over two blocks and the
\* drain, for two outputs or more, after process_multiple_outputs did.
C19_Witness ==
    /\ first # NoFirst
    /\ first.entry = "process_multiple_outputs"
    /\ entry = "process_frames_multiple_outputs"
    /\ pc = "done"
    /\ Len(outputs) >= 2
    /\ Count("process_block") = 2
    /\ Count("initialise") = 1
    /\ Count("get_remaining_features") = 1
    /\ Len(emitted) >= 3

=============================================================================
